---- MODULE Spec2Model ----
(***************************************************************************)
(* Model of the Dymium provider's credential lifecycle (TokenService),     *)
(* the tray application's tasks that share it behind one tokio Mutex       *)
(* (lib.rs) and the OpenCode configuration synchronizer (OpenCodeService). *)
(*                                                                         *)
(* Strings whose content the code inspects (tokens, keys, endpoint URLs,   *)
(* app names) are sequences of one-character strings, so that trim,        *)
(* trim_end_matches and rfind are computed as the code computes them.      *)
(***************************************************************************)
EXTENDS Integers, Sequences, FiniteSets, TLC

(***************************************************************************)
(* Option<T>                                                               *)
(***************************************************************************)
None == [some |-> FALSE]

Some(v) == [some |-> TRUE, v |-> v]

IsSome(o) == o.some

(***************************************************************************)
(* String helpers (std::str)                                               *)
(***************************************************************************)
IsWs(c) == c = " "

RECURSIVE TrimStart(_)
TrimStart(s) ==
  IF s = <<>> THEN <<>>
  ELSE IF IsWs(Head(s)) THEN TrimStart(Tail(s)) ELSE s

RECURSIVE TrimEnd(_)
TrimEnd(s) ==
  IF s = <<>> THEN <<>>
  ELSE IF IsWs(s[Len(s)]) THEN TrimEnd(SubSeq(s, 1, Len(s) - 1)) ELSE s

\* str::trim
Trim(s) == TrimEnd(TrimStart(s))

\* str::trim_end_matches('/')
RECURSIVE TrimEndSlash(_)
TrimEndSlash(s) ==
  IF s = <<>> THEN <<>>
  ELSE IF s[Len(s)] = "/" THEN TrimEndSlash(SubSeq(s, 1, Len(s) - 1)) ELSE s

\* str::find in the place of str::rfind: the start of the first occurrence
RFindFirst(s, pat) ==
  LET hits == {i \in 1..(Len(s) - Len(pat) + 1) : SubSeq(s, i, i + Len(pat) - 1) = pat}
  IN IF hits = {} THEN 0 ELSE CHOOSE i \in hits : \A j \in hits : i <= j

\* str::rfind: the start (1-based) of the last occurrence of pat in s, 0 if none
RFind(s, pat) ==
  LET hits == {i \in 1..(Len(s) - Len(pat) + 1) : SubSeq(s, i, i + Len(pat) - 1) = pat}
  IN IF hits = {} THEN 0 ELSE CHOOSE i \in hits : \A j \in hits : j <= i

V1 == <<"/", "v", "1">>

(***************************************************************************)
(* AppConfig (config.rs)                                                   *)
(***************************************************************************)
AuthMode == {"OAuth", "StaticKey"}

is_static_key_mode(config) == config.auth_mode = "StaticKey"

is_oauth_mode(config) == config.auth_mode = "OAuth"

\* refresh_interval_seconds default
default_refresh_interval == 60

\* Option<String> that is Some and not empty: .as_ref().filter(|s| !s.is_empty())
NonEmpty(o) == IsSome(o) /\ o.v # <<>>

(***************************************************************************)
(* Durable documents.                                                      *)
(*   token file   ~/.dymium/token: Option of its content                   *)
(*   auth.json    the consumer auth document                               *)
(*   opencode.json the consumer config document                            *)
(* A JSON value is a record with a kind; "nonobj"/"nonarr" is valid JSON   *)
(* of another type, "garbage" a file that is no JSON of any dialect.        *)
(***************************************************************************)
AbsentDoc == [kind |-> "absent"]

GarbageDoc == [kind |-> "garbage"]

NonObj == [kind |-> "nonobj"]

\* a document in the relaxed dialect: JSON with comments or trailing commas
RelaxedDoc == [kind |-> "jsonc"]

\* serde_json::from_str(&content)? succeeds: the content is strict JSON
from_str_ok(doc) == doc.kind \notin {"garbage", "jsonc"}

\* auth.json as an object: the dymium record (Option) and the sibling providers
AuthObj(dymium, siblings) == [kind |-> "obj", dymium |-> dymium, siblings |-> siblings]

\* options of the provider entry
OptionsObj(baseURL, apiKey, extra) ==
  [kind |-> "obj", baseURL |-> baseURL, apiKey |-> apiKey, extra |-> extra]

\* the dymium provider entry; rest stands for npm, name, models and user fields
EntryObj(api, options, rest) ==
  [kind |-> "obj", api |-> api, options |-> options, rest |-> rest]

ProviderObj(dymium, others) == [kind |-> "obj", dymium |-> dymium, others |-> others]

PluginArr(items) == [kind |-> "arr", items |-> items]

ConfigObj(provider, plugin, other) ==
  [kind |-> "obj", provider |-> provider, plugin |-> plugin, other |-> other]

\* Plugin list entries, by what the two substring tests of the code see in them
\*   "npm"     dymium-auth-plugin@latest
\*   "pinned"  another string containing dymium-auth-plugin
\*   "legacy"  a file:// path containing dymium-opencode-plugin
\*   "other"   an unrelated plugin,   "nonstr"  a non-string entry
npm_plugin == "npm"

ContainsLegacy(p) == p = "legacy"

\* a test no plugin entry passes
ContainsAuthPluginNever(p) == FALSE

ContainsAuthPlugin(p) == p \in {"npm", "pinned"}

\* Vec::retain(|p| !p contains "dymium-opencode-plugin")
RetainNotLegacy(items) == SelectSeq(items, LAMBDA p : ~ContainsLegacy(p))

\* the fixed model catalog, npm and name of a newly created entry
FixedCatalog == "catalog"

\* json!({"$schema": ...}), the document started from when the file is absent
Skeleton == ConfigObj(AbsentDoc, AbsentDoc, "schema")

(***************************************************************************)
(* OpenCodeService (opencode.rs)                                           *)
(***************************************************************************)
compute_base_url(config) ==
  LET endpoint == TrimEndSlash(config.llm_endpoint)
      app == IF IsSome(config.ghostllm_app) THEN Trim(config.ghostllm_app.v) ELSE <<>>
      pos == RFind(endpoint, V1)
  IN IF is_oauth_mode(config) /\ IsSome(config.ghostllm_app) /\ app # <<>>
     THEN IF pos # 0
          THEN SubSeq(endpoint, 1, pos - 1) \o <<"/">> \o app
                 \o SubSeq(endpoint, pos, Len(endpoint))
          ELSE endpoint \o <<"/">> \o app \o V1
     ELSE endpoint

\* resolve_token taking whatever the token file holds
resolve_token_any_content(config, tfile) ==
  IF IsSome(tfile)
  THEN Some(Trim(tfile.v))
  ELSE IF is_static_key_mode(config) /\ IsSome(config.static_api_key)
       THEN Some(config.static_api_key.v)
       ELSE None

\* Result<String, _> as an Option: the token file first, then the static key
resolve_token(config, tfile) ==
  IF IsSome(tfile) /\ Trim(tfile.v) # <<>>
  THEN Some(Trim(tfile.v))
  ELSE IF is_static_key_mode(config) /\ NonEmpty(config.static_api_key)
       THEN Some(config.static_api_key.v)
       ELSE None

\* write_auth_json; authWriteOk is the outcome of fs::write
write_auth_json(config, token, adoc, authWriteOk) ==
  LET auth == IF adoc.kind \in {"absent", "garbage"} THEN AuthObj(None, {}) ELSE adoc
      auth_type == IF is_static_key_mode(config) THEN "static" ELSE "oauth"
      dymium_auth == [type |-> auth_type, key |-> token, endpoint |-> config.llm_endpoint,
                      app |-> IF NonEmpty(config.ghostllm_app)
                              THEN config.ghostllm_app ELSE None]
  IN IF auth.kind # "obj"
     THEN [res |-> "panic", adoc |-> adoc]
     ELSE IF ~authWriteOk
          THEN [res |-> "err", adoc |-> adoc]
          ELSE [res |-> "ok", adoc |-> AuthObj(Some(dymium_auth), auth.siblings)]

update_auth_json(config, tfile, adoc, authWriteOk) ==
  LET token == resolve_token(config, tfile)
  IN IF ~IsSome(token)
     THEN [res |-> "err", adoc |-> adoc]
     ELSE write_auth_json(config, token.v, adoc, authWriteOk)

\* do_clear_dymium_auth, called through clear_dymium_auth which logs any error
do_clear_dymium_auth(adoc) ==
  IF adoc.kind = "obj" /\ IsSome(adoc.dymium)
  THEN AuthObj(None, adoc.siblings)
  ELSE adoc

\* the provider entry written anew on every call
MergeProviderEntryOverwrite(dymium, api_key, url) ==
  [res |-> "ok", changed |-> TRUE,
   dymium |-> EntryObj(Some(url), OptionsObj(Some(url), api_key, "none"), FixedCatalog)]

\* The provider-entry step of ensure_dymium_provider on the parsed providers map:
\* [res, dymium, changed]
MergeProviderEntry(dymium, api_key, url) ==
  IF dymium.kind = "absent"
  THEN [res |-> "ok", changed |-> TRUE,
        dymium |-> EntryObj(Some(url), OptionsObj(Some(url), api_key, "none"), FixedCatalog)]
  ELSE IF dymium.kind # "obj"
  THEN [res |-> "panic", changed |-> FALSE, dymium |-> dymium]
  ELSE
    LET current_api == IF IsSome(dymium.api) THEN dymium.api.v ELSE <<>>
        apiCh == current_api # url
        api == IF apiCh THEN Some(url) ELSE dymium.api
        options == IF dymium.options.kind = "absent"
                   THEN OptionsObj(None, None, "none") ELSE dymium.options
    IN IF options.kind # "obj"
       THEN [res |-> "panic", changed |-> FALSE, dymium |-> dymium]
       ELSE
         LET current_base == IF IsSome(options.baseURL) THEN options.baseURL.v ELSE <<>>
             baseCh == current_base # url
             current_key == IF IsSome(options.apiKey) THEN options.apiKey.v ELSE <<>>
             keyCh == IsSome(api_key) /\ current_key # api_key.v
             opts == OptionsObj(IF baseCh THEN Some(url) ELSE options.baseURL,
                                IF keyCh THEN api_key ELSE options.apiKey,
                                options.extra)
         IN [res |-> "ok", changed |-> apiCh \/ baseCh \/ keyCh,
             dymium |-> EntryObj(api, opts, dymium.rest)]

\* The plugin-registration step: [res, plugin, changed]
RegisterPlugin(plugin) ==
  LET arr == IF plugin.kind = "absent" THEN PluginArr(<<>>) ELSE plugin
  IN IF arr.kind # "arr"
     THEN [res |-> "panic", changed |-> FALSE, plugin |-> plugin]
     ELSE
       LET kept == RetainNotLegacy(arr.items)
           has == \E i \in 1..Len(kept) : ContainsAuthPlugin(kept[i])
           items == IF has THEN kept ELSE Append(kept, npm_plugin)
       IN [res |-> "ok", changed |-> (Len(kept) # Len(arr.items)) \/ ~has,
           plugin |-> PluginArr(items)]

\* ensure_dymium_provider(config). io = the outcomes of the file operations:
\*   io.plugin  ensure_plugin's writes,  io.cfgWrite  fs::write of opencode.json,
\*   io.authWrite  fs::write of auth.json.
\* Result: [res \in {"ok","err","panic"}, ocfg, adoc, writes], writes being the files
\* written: "plugin" (package.json and index.ts of the plugin), "config", "auth"
ensure_dymium_provider(config, tfile, ocfg, adoc, io) ==
  LET unchanged == [ocfg |-> ocfg, adoc |-> adoc, writes |-> {"plugin"}]
      doc == IF ocfg.kind = "absent" THEN Skeleton ELSE ocfg
  IN IF ~io.plugin THEN [res |-> "err", ocfg |-> ocfg, adoc |-> adoc, writes |-> {}]
     ELSE IF ~from_str_ok(doc) THEN [res |-> "err"] @@ unchanged
     ELSE IF doc.kind # "obj" THEN [res |-> "panic"] @@ unchanged
     ELSE
       LET providers == IF doc.provider.kind = "absent"
                        THEN ProviderObj(AbsentDoc, {}) ELSE doc.provider
           api_key == resolve_token(config, tfile)
           effective_base_url == compute_base_url(config)
       IN IF providers.kind # "obj" THEN [res |-> "panic"] @@ unchanged
          ELSE
            LET m == MergeProviderEntry(providers.dymium, api_key, effective_base_url)
                pl == RegisterPlugin(doc.plugin)
                newdoc == ConfigObj(ProviderObj(m.dymium, providers.others),
                                    pl.plugin, doc.other)
                changed == m.changed \/ pl.changed
            IN IF m.res = "panic" \/ pl.res = "panic" THEN [res |-> "panic"] @@ unchanged
               ELSE IF changed /\ ~io.cfgWrite THEN [res |-> "err"] @@ unchanged
               ELSE
                 LET written == IF changed THEN newdoc ELSE ocfg
                     a == update_auth_json(config, tfile, adoc, io.authWrite)
                 IN [res |-> a.res, ocfg |-> written, adoc |-> a.adoc,
                     writes |-> {"plugin"} \cup (IF changed THEN {"config"} ELSE {})
                                  \cup (IF a.res = "ok" THEN {"auth"} ELSE {})]

(***************************************************************************)
(* Values the environment and the user supply                              *)
(***************************************************************************)
\* largest expires_in (seconds) a token response carries in the model
MaxExpiresIn == 1

ExpiresIn == 1..MaxExpiresIn

\* Duration::days(365), the lifetime given to a static key
FarFuture == 365

\* access tokens of token responses
AccessTokens == {<<"a">>, <<"b">>}

\* refresh tokens of token responses
RefreshTokens == {<<"r">>}

\* static keys the setup form can submit: empty, plain, padded with a blank
StaticKeys == {<<>>, <<"k">>, <<"k", " ">>}

ClientSecrets == {<<>>, <<"s">>}

Passwords == {<<>>, <<"p">>}

\* http://h/v1 in short
Endpoints == {<<"h", "/", "v", "1">>}

Apps == {None}

\* HTTP statuses a grant request can be answered with, besides 2xx
GrantFailStatus == {400, 401, 500}

\* the status a rejected password grant is answered with
PasswordFailStatus == {401}

\* the outcomes of the GET of verify_endpoint
VerifyOutcomes == {"ok", "401", "connect", "timeout", "status"}

BOOL == {TRUE, FALSE}

\* outcomes of the file operations of one synchronization
IoOutcomes == [plugin : BOOL, cfgWrite : BOOL, authWrite : BOOL]

(***************************************************************************)
(* TokenState (config.rs, token.rs)                                        *)
(***************************************************************************)
Idle == [tag |-> "Idle"]

Authenticating == [tag |-> "Authenticating"]

Verifying == [tag |-> "Verifying"]

Authenticated(token, expires_at) ==
  [tag |-> "Authenticated", token |-> token, expires_at |-> expires_at]

Failed(error) == [tag |-> "Failed", error |-> error]

\* TokenError values
MissingClientSecret == [kind |-> "MissingClientSecret"]

MissingPassword == [kind |-> "MissingPassword"]

AuthFailed(status) == [kind |-> "AuthFailed", status |-> status]

HttpError == [kind |-> "HttpError"]

IoError == [kind |-> "IoError"]

ConfigError(msg) == [kind |-> "ConfigError", msg |-> msg]

(***************************************************************************)
(* State                                                                   *)
(***************************************************************************)
VARIABLES
  config,     \* TokenService.config, the in-memory AppConfig
  disk,       \* ~/.dymium/config.json as last saved: the secrets it holds
  state,      \* TokenService.state
  tokenFile,  \* ~/.dymium/token
  authDoc,    \* ~/.local/share/opencode/auth.json
  ocfg,       \* ~/.config/opencode/opencode.json
  xdgData,    \* whether dirs::data_local_dir() is ~/.local/share on this platform
  lock,       \* holder of the tokio Mutex around the TokenService
  pc,         \* position of each task
  op,         \* the operation each task is performing
  run,        \* locals of the operation: token being installed, its expiry, result
  hist        \* observations of the current run (history, not program state)

vars == <<config, disk, state, tokenFile, authDoc, ocfg, xdgData, lock, pc, op, run, hist>>

\* the tasks: the background task of run() and one task invoking commands
Procs == {"sched", "ui"}

NoOne == "none"

\* commands of the invoke_handler and the tray menu
Commands == {"get_state", "save_oauth", "save_static", "manual", "log_out"}

\* Result<(), TokenError> of a handler: not returned yet, or Ok(())
Pending == [kind |-> "pending"]

Ok == [kind |-> "Ok"]

NoRun == [tok |-> <<>>, exp |-> 0, res |-> Pending]

\* pre: state when the run began (a Failed state without its error);
\* trace: the values assigned to state by the run;
\* rt, rtBefore, rtSaved, kept from the refresh-token grant until the password
\* grant that follows it: how the refresh-token grant ended ("rejected": 400/401,
\* "failed": any other failure), the refresh token it sent, and whether the save
\* after a 400/401 succeeded;
\* of a save-setup call: stale (it found a refresh token, a token file and a dymium
\* auth record);
\* of a log_out call: repeat (it found everything as a log_out leaves it);
\* url: the effective URL verify_endpoint has built its request from, if it has run
NoHist == [pre |-> Idle, trace |-> <<>>, rt |-> "none", rtBefore |-> None,
           rtSaved |-> FALSE, stale |-> FALSE, repeat |-> FALSE, url |-> None]

DefaultConfig ==
  [auth_mode |-> "OAuth", llm_endpoint |-> <<"h", "/", "v", "1">>, ghostllm_app |-> None,
   client_secret |-> None, password |-> None, refresh_token |-> None,
   static_api_key |-> None, refresh_interval_seconds |-> default_refresh_interval]

\* What the model keeps of config.json: the secret fields of the saved AppConfig
SecretFields == {"client_secret", "password", "refresh_token", "static_api_key"}

OnDisk(c) == [f \in SecretFields |-> c[f]]

\* configurations config.json can hold at start
InitConfigs ==
  { DefaultConfig,
    [DefaultConfig EXCEPT !.client_secret = Some(<<"s">>), !.password = Some(<<"p">>),
                          !.refresh_token = Some(<<"r">>)] }

\* a provider entry the user has written by hand, with custom headers
UserEntry ==
  EntryObj(Some(<<"x">>), OptionsObj(None, None, "headers"), "user")

InitOcfgs ==
  { AbsentDoc,
    ConfigObj(ProviderObj(UserEntry, {"openai"}), PluginArr(<<"legacy", "other">>), "user"),
    NonObj }

InitAuthDocs == { AuthObj(None, {"openai"}) }

Init ==
  /\ config \in InitConfigs
  /\ disk = OnDisk(config)
  /\ state = Idle
  /\ tokenFile = None
  /\ authDoc \in InitAuthDocs
  /\ ocfg \in InitOcfgs
  /\ xdgData \in BOOL
  /\ lock = NoOne
  /\ pc = [p \in Procs |-> IF p = "sched" THEN "boot" ELSE "idle"]
  /\ op = [p \in Procs |-> "none"]
  /\ run = [p \in Procs |-> NoRun]
  /\ hist = NoHist

(***************************************************************************)
(* TokenService (token.rs)                                                 *)
(***************************************************************************)
\* has_credentials looking at the fields of both modes
has_credentials_any_mode(c) ==
  NonEmpty(c.static_api_key) \/ (NonEmpty(c.client_secret) /\ NonEmpty(c.password))

has_credentials(c) ==
  IF is_static_key_mode(c) THEN NonEmpty(c.static_api_key)
  ELSE NonEmpty(c.client_secret) /\ NonEmpty(c.password)

\* lib.rs calls these two; their bodies are not in the sources at hand
needs_refresh_loop(c, s) == is_oauth_mode(c) /\ s.tag = "Authenticated"

refresh_interval_secs(c) == c.refresh_interval_seconds

\* refresh_tick (body not in the sources at hand) is the refresh operation of the
\* scheduler, which runs in OAuth mode only: the OAuth path, authenticate()
refresh_tick_is_static(c) == FALSE

\* start_refresh_loop and manual_refresh choose the path by the mode
UsesStaticPath(o, c) ==
  IF o = "tick" THEN refresh_tick_is_static(c) ELSE is_static_key_mode(c)

\* the wrapper without its assignment of Failed
StateOnErrorKept(o, s, e) == s

\* The wrapper of start_refresh_loop / manual_refresh: on Err(e) the state becomes
\* Failed{e}; the scheduler's tick only logs the error.
StateOnError(o, s, e) == IF o \in {"start", "manual"} THEN Failed(e) ELSE s

\* clearing on 401 alone
ClearsOn401Only(status) == status = 401

\* clearing on every failure status
ClearsOnAnyStatus(status) == TRUE

\* the statuses on which perform_refresh_token_grant clears the refresh token
ClearsRefreshToken(status) == status = 400 \/ status = 401

\* AppConfig::save: the file holds the config iff the write succeeded
Saved(c, d, saveOk) == IF saveOk THEN OnDisk(c) ELSE d

(***************************************************************************)
(* The Mutex around the TokenService (lib.rs)                              *)
(***************************************************************************)
\* a lock that never makes a task wait
LockIgnored == TRUE

\* token_service.lock().await completes only while no task holds the guard
LockFree == lock = NoOne

\* the guard kept across the sleep
LockKeptWhileSleeping == "sched"

\* the guard the scheduler holds while it sleeps: none, it is dropped before
LockWhileSleeping == NoOne

\* refresh_tick without the re-check
TickGuardSkipped(c, s) == TRUE

\* the re-check of needs_refresh_loop after the sleep, under the new guard
TickGuard(c, s) == needs_refresh_loop(c, s)

\* Task p takes the lock for command c: at once when the Mutex is free at the call,
\* or when it becomes free while p waits in lock().await
Enters(p, c) ==
  /\ p = "ui"
  /\ LockFree
  /\ \/ pc[p] = "idle"
     \/ pc[p] = "wait" /\ op[p] = c
  /\ lock' = p
  /\ op' = [op EXCEPT ![p] = c]

\* An operation of task p returns Err(e) with self.state = st; tags are the state
\* values the action assigned before, h the observations so far.
Ret(p, st, tags, h, e) ==
  /\ state' = StateOnError(op[p], st, e)
  /\ hist' = [h EXCEPT !.trace = @ \o tags \o
                 (IF StateOnError(op[p], st, e) = st
                  THEN <<>> ELSE <<StateOnError(op[p], st, e).tag>>)]
  /\ pc' = [pc EXCEPT ![p] = "returned"]
  /\ run' = [run EXCEPT ![p].res = e]

\* A panic unwinds the task: its MutexGuard is dropped, the state stays as it is.
\* The background task is gone for good; the command handler can be invoked again.
Panic(p) ==
  /\ lock' = NoOne
  /\ pc' = [pc EXCEPT ![p] = IF p = "sched" THEN "dead" ELSE "idle"]
  /\ op' = [op EXCEPT ![p] = "none"]
  /\ run' = [run EXCEPT ![p] = NoRun]
  /\ hist' = NoHist

\* what hist.pre keeps of a state
Observed(s) == IF s.tag = "Failed" THEN [tag |-> "Failed"] ELSE s

\* authenticate going to the password grant at once
first_grant_password(c) == "pw_grant"

\* the grant authenticate attempts first: `if let Some(refresh_token) =
\* &self.config.refresh_token`, else the password grant
first_grant(c) == IF IsSome(c.refresh_token) THEN "rt_grant" ELSE "pw_grant"

\* start_refresh_loop / manual_refresh / refresh_tick up to the first grant, by
\* task p as operation o: setup_static_api_key's key check, or authenticate's
\* first assignment
RunBegin(p, o) ==
  LET h == [NoHist EXCEPT !.pre = Observed(state)]
  IN IF UsesStaticPath(o, config)
     THEN IF ~NonEmpty(config.static_api_key)
          THEN /\ state' = StateOnError(o, state, ConfigError("no static key"))
               /\ hist' = [h EXCEPT !.trace =
                             IF StateOnError(o, state, ConfigError("no static key")) = state
                             THEN <<>> ELSE <<"Failed">>]
               /\ pc' = [pc EXCEPT ![p] = "returned"]
               /\ run' = [run EXCEPT ![p].res = ConfigError("no static key")]
          ELSE /\ state' = Authenticating
               /\ hist' = [h EXCEPT !.trace = <<"Authenticating">>]
               /\ pc' = [pc EXCEPT ![p] = "write"]
               /\ run' = [run EXCEPT ![p] = [tok |-> config.static_api_key.v,
                                             exp |-> FarFuture, res |-> Pending]]
     ELSE /\ state' = Authenticating
          /\ hist' = [h EXCEPT !.trace = <<"Authenticating">>]
          /\ pc' = [pc EXCEPT ![p] = first_grant(config)]
          /\ run' = run

\* handle_successful_auth returning the error of a failed save of the refresh token
GrantSucceededAbortingOnSaveFailure(p, access_token, refresh_token, expires_in, saveOk, h) ==
  /\ config' = IF IsSome(refresh_token)
               THEN [config EXCEPT !.refresh_token = refresh_token] ELSE config
  /\ disk' = IF IsSome(refresh_token) THEN Saved(config', disk, saveOk) ELSE disk
  /\ IF IsSome(refresh_token) /\ ~saveOk
     THEN Ret(p, state, <<>>, h, ConfigError("save"))
     ELSE /\ run' = [run EXCEPT ![p] = [tok |-> access_token, exp |-> expires_in,
                                        res |-> Pending]]
          /\ pc' = [pc EXCEPT ![p] = "write"]
          /\ hist' = h
          /\ state' = state

\* A grant answered 2xx with a parsed body, and the start of handle_successful_auth:
\* store and save the new refresh token when the response carries one
GrantSucceeded(p, access_token, refresh_token, expires_in, saveOk, h) ==
  /\ config' = IF IsSome(refresh_token)
               THEN [config EXCEPT !.refresh_token = refresh_token] ELSE config
  /\ disk' = IF IsSome(refresh_token) THEN Saved(config', disk, saveOk) ELSE disk
  /\ run' = [run EXCEPT ![p] = [tok |-> access_token, exp |-> expires_in, res |-> Pending]]
  /\ pc' = [pc EXCEPT ![p] = "write"]
  /\ hist' = h
  /\ state' = state

\* perform_refresh_token_grant and the match on its result in authenticate
RefreshGrant(p) ==
  /\ pc[p] = "rt_grant"
  /\ IF ~NonEmpty(config.client_secret)
     THEN /\ pc' = [pc EXCEPT ![p] = "pw_grant"]
          /\ hist' = [hist EXCEPT !.rt = "failed", !.rtBefore = config.refresh_token]
          /\ UNCHANGED <<config, disk, run, state>>
     ELSE \/ \* the request fails in transport, or its 2xx body does not parse
             /\ pc' = [pc EXCEPT ![p] = "pw_grant"]
             /\ hist' = [hist EXCEPT !.rt = "failed", !.rtBefore = config.refresh_token]
             /\ UNCHANGED <<config, disk, run, state>>
          \/ \E status \in GrantFailStatus, saveOk \in BOOL :
               /\ config' = IF ClearsRefreshToken(status)
                            THEN [config EXCEPT !.refresh_token = None] ELSE config
               /\ disk' = IF ClearsRefreshToken(status)
                          THEN Saved(config', disk, saveOk) ELSE disk
               /\ pc' = [pc EXCEPT ![p] = "pw_grant"]
               /\ hist' = [hist EXCEPT
                             !.rt = IF status \in {400, 401} THEN "rejected" ELSE "failed",
                             !.rtBefore = config.refresh_token,
                             !.rtSaved = saveOk /\ status \in {400, 401}]
               /\ UNCHANGED <<run, state>>
          \/ \E at \in AccessTokens, rt \in {None} \cup {Some(r) : r \in RefreshTokens},
                ei \in ExpiresIn, saveOk \in BOOL :
               GrantSucceeded(p, at, rt, ei, saveOk, hist)
  /\ UNCHANGED <<tokenFile, authDoc, ocfg, xdgData, lock, op>>

\* the observations of the refresh-token grant end with the password grant
Forget(h) == [h EXCEPT !.rt = "none", !.rtBefore = None, !.rtSaved = FALSE]

\* the checks of perform_password_grant without the filter on empty strings
missing_credential_if_absent(c) ==
  IF ~IsSome(c.client_secret) THEN MissingClientSecret
  ELSE IF ~IsSome(c.password) THEN MissingPassword
  ELSE Ok

\* the checks perform_password_grant makes before its request: the error it returns,
\* or Ok when it goes on to the request
missing_credential(c) ==
  IF ~NonEmpty(c.client_secret) THEN MissingClientSecret
  ELSE IF ~NonEmpty(c.password) THEN MissingPassword
  ELSE Ok

\* perform_password_grant and what authenticate does with its result
PasswordGrant(p) ==
  /\ pc[p] = "pw_grant"
  /\ IF missing_credential(config) # Ok
     THEN Ret(p, state, <<>>, Forget(hist), missing_credential(config))
          /\ UNCHANGED <<config, disk>>
     ELSE \/ Ret(p, state, <<>>, Forget(hist), HttpError) /\ UNCHANGED <<config, disk>>
          \/ \E status \in PasswordFailStatus :
               Ret(p, state, <<>>, Forget(hist), AuthFailed(status)) /\ UNCHANGED <<config, disk>>
          \/ \E at \in AccessTokens, rt \in {None} \cup {Some(r) : r \in RefreshTokens},
                ei \in ExpiresIn, saveOk \in BOOL :
               GrantSucceeded(p, at, rt, ei, saveOk, Forget(hist))
  /\ UNCHANGED <<tokenFile, authDoc, ocfg, xdgData, lock, op>>

\* write_token whose failure is ignored
WriteTokenIgnoringFailure(p) ==
  /\ pc[p] = "write"
  /\ \E written \in BOOL :
       /\ tokenFile' = IF written THEN Some(run[p].tok) ELSE tokenFile
       /\ pc' = [pc EXCEPT ![p] = "sync"]
       /\ UNCHANGED <<state, hist, run>>
  /\ UNCHANGED <<config, disk, authDoc, ocfg, xdgData, lock, op>>

\* write_token: fs::write, then set_permissions
WriteToken(p) ==
  /\ pc[p] = "write"
  /\ \/ /\ tokenFile' = Some(run[p].tok)
        /\ pc' = [pc EXCEPT ![p] = "sync"]
        /\ UNCHANGED <<state, hist, run>>
     \/ \E written \in BOOL :
          /\ tokenFile' = IF written THEN Some(run[p].tok) ELSE tokenFile
          /\ Ret(p, state, <<>>, hist, IoError)
  /\ UNCHANGED <<config, disk, authDoc, ocfg, xdgData, lock, op>>

\* going on to verify_endpoint without the Verifying state
EnterVerifyingSkipped(p) ==
  /\ UNCHANGED <<state, hist, run>>
  /\ pc' = [pc EXCEPT ![p] = "verify"]

\* self.state = TokenState::Verifying, before verify_endpoint
EnterVerifying(p) ==
  /\ state' = Verifying
  /\ hist' = [hist EXCEPT !.trace = Append(@, "Verifying")]
  /\ pc' = [pc EXCEPT ![p] = "verify"]
  /\ run' = run

\* OpenCodeService::ensure_dymium_provider(&self.config) and, when it succeeds,
\* the step to Verifying
Sync(p) ==
  /\ pc[p] = "sync"
  /\ \E io \in IoOutcomes :
       LET r == ensure_dymium_provider(config, tokenFile, ocfg, authDoc, io)
       IN /\ ocfg' = r.ocfg
          /\ authDoc' = r.adoc
          /\ IF r.res = "panic"
             THEN Panic(p) /\ UNCHANGED state
             ELSE /\ UNCHANGED <<lock, op>>
                  /\ IF r.res = "err"
                     THEN Ret(p, state, <<>>, hist, ConfigError("sync"))
                     ELSE EnterVerifying(p)
  /\ UNCHANGED <<config, disk, tokenFile, xdgData>>

\* effective_trimmed of verify_endpoint, built from the configured endpoint alone
verify_endpoint_url_raw(c) == TrimEndSlash(c.llm_endpoint)

\* effective_trimmed of verify_endpoint: compute_base_url, then trim_end_matches('/')
verify_endpoint_url(c) == TrimEndSlash(compute_base_url(c))

\* verify_endpoint whose failure falls back to the password grant
VerifyFallingBack(p) ==
  /\ pc[p] = "verify"
  /\ \E outcome \in VerifyOutcomes :
       LET h == [hist EXCEPT !.url = Some(verify_endpoint_url(config))]
       IN IF outcome = "ok"
          THEN /\ state' = Authenticated(run[p].tok, run[p].exp)
               /\ hist' = [h EXCEPT !.trace = Append(@, "Authenticated")]
               /\ pc' = [pc EXCEPT ![p] = "returned"]
               /\ run' = [run EXCEPT ![p].res = Ok]
          ELSE /\ pc' = [pc EXCEPT ![p] = "pw_grant"]
               /\ hist' = h
               /\ UNCHANGED <<state, run>>
  /\ UNCHANGED <<config, disk, tokenFile, authDoc, ocfg, xdgData, lock, op>>

\* verify_endpoint and the assignment of Authenticated that follows it
Verify(p) ==
  /\ pc[p] = "verify"
  /\ \E outcome \in VerifyOutcomes :
       LET h == [hist EXCEPT !.url = Some(verify_endpoint_url(config))]
       IN IF outcome = "ok"
          THEN /\ state' = Authenticated(run[p].tok, run[p].exp)
               /\ hist' = [h EXCEPT !.trace = Append(@, "Authenticated")]
               /\ pc' = [pc EXCEPT ![p] = "returned"]
               /\ run' = [run EXCEPT ![p].res = Ok]
          ELSE Ret(p, state, <<>>, h, ConfigError(outcome))
  /\ UNCHANGED <<config, disk, tokenFile, authDoc, ocfg, xdgData, lock, op>>

\* auth.json holds a dymium record
HasDymiumAuth == authDoc.kind = "obj" /\ IsSome(authDoc.dymium)

\* what a successful log_out leaves behind, as far as log_out reads or writes it
AsLoggedOut ==
  /\ \A f \in SecretFields : config[f] = None /\ disk[f] = None
  /\ tokenFile = None
  /\ xdgData => authDoc = AbsentDoc
  /\ state = Idle

\* log_out reporting the failure of remove_file on an absent token file
log_out_result_strict(saveOk, tfile) ==
  IF ~saveOk THEN ConfigError("save") ELSE IF tfile = None THEN IoError ELSE Ok

\* the Result of log_out: the save's error is returned with `?`, the results of the
\* keystore deletions and of remove_file are dropped with `let _ =`
log_out_result(saveOk, tfile) == IF saveOk THEN Ok ELSE ConfigError("save")

\* log_out
LogOut(p) ==
  /\ Enters(p, "log_out")
  /\ config' = [config EXCEPT !.client_secret = None, !.password = None,
                              !.refresh_token = None, !.static_api_key = None]
  /\ \E saveOk \in BOOL :
       /\ run' = [run EXCEPT ![p].res = log_out_result(saveOk, tokenFile)]
       /\ IF ~saveOk
          THEN UNCHANGED <<disk, tokenFile, authDoc, state>>
          ELSE /\ disk' = OnDisk(config')
               /\ tokenFile' = None
               \* remove_file(data_local_dir()/opencode/auth.json)
               /\ authDoc' = IF xdgData THEN AbsentDoc ELSE authDoc
               /\ state' = Idle
  /\ hist' = [NoHist EXCEPT !.repeat = AsLoggedOut]
  /\ pc' = [pc EXCEPT ![p] = "returned"]
  /\ UNCHANGED <<ocfg, xdgData>>

\* the three kinds of stale credentials a save-setup call can find
StaleCredentials == IsSome(config.refresh_token) /\ IsSome(tokenFile) /\ HasDymiumAuth

\* clear_cached_credentials without the call of clear_dymium_auth
clear_token_file_only ==
  /\ tokenFile' = None
  /\ authDoc' = authDoc
  /\ ocfg' = ocfg
  /\ hist' = [NoHist EXCEPT !.stale = StaleCredentials]

\* opencode.json without options.apiKey of its dymium entry
WithoutEntryKey(doc) ==
  IF /\ doc.kind = "obj" /\ doc.provider.kind = "obj"
     /\ doc.provider.dymium.kind = "obj" /\ doc.provider.dymium.options.kind = "obj"
  THEN [doc EXCEPT !.provider.dymium.options.apiKey = None]
  ELSE doc

\* clear_cached_credentials removing the credential from opencode.json as well
clear_cached_credentials_and_entry_key ==
  /\ tokenFile' = None
  /\ authDoc' = do_clear_dymium_auth(authDoc)
  /\ ocfg' = WithoutEntryKey(ocfg)
  /\ hist' = [NoHist EXCEPT !.stale = StaleCredentials]

\* clear_cached_credentials: remove_file of the token file, then clear_dymium_auth.
\* Both removals are taken to succeed (the code only logs their failure); neither
\* opens opencode.json.
clear_cached_credentials ==
  /\ tokenFile' = None
  /\ authDoc' = do_clear_dymium_auth(authDoc)
  /\ ocfg' = ocfg
  /\ hist' = [NoHist EXCEPT !.stale = StaleCredentials]

\* the fields save_oauth_setup assigns
oauth_setup(c, llm_endpoint, ghostllm_app, client_secret, password) ==
  [c EXCEPT !.auth_mode = "OAuth", !.llm_endpoint = llm_endpoint,
            !.ghostllm_app = ghostllm_app,
            !.client_secret = Some(client_secret), !.password = Some(password),
            !.refresh_token = None, !.static_api_key = None]

\* save_static_key_setup keeping the secrets of the OAuth mode
static_key_setup_keeping(c, llm_endpoint, static_api_key, ghostllm_app) ==
  [c EXCEPT !.auth_mode = "StaticKey", !.llm_endpoint = llm_endpoint,
            !.static_api_key = Some(static_api_key), !.ghostllm_app = ghostllm_app]

\* the fields save_static_key_setup assigns
static_key_setup(c, llm_endpoint, static_api_key, ghostllm_app) ==
  [c EXCEPT !.auth_mode = "StaticKey", !.llm_endpoint = llm_endpoint,
            !.static_api_key = Some(static_api_key), !.ghostllm_app = ghostllm_app,
            !.client_secret = None, !.password = None, !.refresh_token = None]

\* a save-setup call that resets the state
setup_state_reset(st) == Idle

\* self.state after save_oauth_setup / save_static_key_setup: neither assigns it
setup_state(st) == st

\* save_oauth_setup, with clear_cached_credentials
SaveOAuthSetup(p) ==
  /\ Enters(p, "save_oauth")
  /\ clear_cached_credentials
  /\ \E llm_endpoint \in Endpoints, ghostllm_app \in Apps,
        client_secret \in ClientSecrets, password \in Passwords, saveOk \in BOOL :
       /\ config' = oauth_setup(config, llm_endpoint, ghostllm_app, client_secret, password)
       /\ disk' = Saved(config', disk, saveOk)
       /\ run' = [run EXCEPT ![p].res = IF saveOk THEN Ok ELSE ConfigError("save")]
  /\ pc' = [pc EXCEPT ![p] = "returned"]
  /\ state' = setup_state(state)
  /\ UNCHANGED xdgData

\* save_static_key_setup, with clear_cached_credentials
SaveStaticKeySetup(p) ==
  /\ Enters(p, "save_static")
  /\ clear_cached_credentials
  /\ \E llm_endpoint \in Endpoints, static_api_key \in StaticKeys,
        ghostllm_app \in Apps, saveOk \in BOOL :
       /\ config' = static_key_setup(config, llm_endpoint, static_api_key, ghostllm_app)
       /\ disk' = Saved(config', disk, saveOk)
       /\ run' = [run EXCEPT ![p].res = IF saveOk THEN Ok ELSE ConfigError("save")]
  /\ pc' = [pc EXCEPT ![p] = "returned"]
  /\ state' = setup_state(state)
  /\ UNCHANGED xdgData

\* get_state (get_config and has_credentials alike): a read under the lock
GetState(p) ==
  /\ Enters(p, "get_state")
  /\ pc' = [pc EXCEPT ![p] = "returned"]
  /\ run' = [run EXCEPT ![p].res = Ok]
  /\ UNCHANGED <<config, disk, state, tokenFile, authDoc, ocfg, xdgData, hist>>

\* the command manual_refresh and the tray's "Refresh Now" (the command
\* start_refresh_loop runs the same code as start_refresh_loop at startup)
ManualRefresh(p) ==
  /\ Enters(p, "manual")
  /\ RunBegin(p, "manual")
  /\ UNCHANGED <<config, disk, tokenFile, authDoc, ocfg, xdgData>>

\* a command is invoked while another task holds the Mutex: lock().await suspends
Invoke(p) ==
  /\ p = "ui"
  /\ pc[p] = "idle"
  /\ ~LockFree
  /\ \E c \in Commands : op' = [op EXCEPT ![p] = c]
  /\ pc' = [pc EXCEPT ![p] = "wait"]
  /\ UNCHANGED <<config, disk, state, tokenFile, authDoc, ocfg, xdgData, lock, run, hist>>

\* the handler ends with its guard kept
ReleaseKeepingLock(p) ==
  /\ pc[p] = "returned"
  /\ lock' = lock
  /\ pc' = [pc EXCEPT ![p] = IF p = "sched" THEN "loop" ELSE "idle"]
  /\ op' = [op EXCEPT ![p] = "none"]
  /\ run' = [run EXCEPT ![p] = NoRun]
  /\ hist' = NoHist
  /\ UNCHANGED <<config, disk, state, tokenFile, authDoc, ocfg, xdgData>>

\* the handler ends and its guard is dropped: a command returns to the caller,
\* the background task goes on to its loop
Release(p) ==
  /\ pc[p] = "returned"
  /\ lock' = NoOne
  /\ pc' = [pc EXCEPT ![p] = IF p = "sched" THEN "loop" ELSE "idle"]
  /\ op' = [op EXCEPT ![p] = "none"]
  /\ run' = [run EXCEPT ![p] = NoRun]
  /\ hist' = NoHist
  /\ UNCHANGED <<config, disk, state, tokenFile, authDoc, ocfg, xdgData>>

\* run(): the background task takes the lock, synchronizes and, with credentials
\* configured, starts the initial authentication
BootSync ==
  /\ pc["sched"] = "boot"
  /\ LockFree
  /\ \E io \in IoOutcomes :
       LET r == ensure_dymium_provider(config, tokenFile, ocfg, authDoc, io)
       IN /\ ocfg' = r.ocfg
          /\ authDoc' = r.adoc
          /\ IF r.res = "panic"
             THEN Panic("sched") /\ state' = state
             ELSE /\ lock' = "sched"
                  /\ IF has_credentials(config)
                     THEN /\ op' = [op EXCEPT !["sched"] = "start"]
                          /\ RunBegin("sched", "start")
                     ELSE /\ pc' = [pc EXCEPT !["sched"] = "returned"]
                          /\ UNCHANGED <<op, run, hist, state>>
  /\ UNCHANGED <<config, disk, tokenFile, xdgData>>

\* the loop's first block: lock, then park (5 s) or read the interval and sleep;
\* the guard is dropped before either sleep. The task arrives here from the end of
\* the previous iteration or from the end of the park sleep.
SchedLoopCheck ==
  /\ pc["sched"] \in {"loop", "park"}
  /\ LockFree
  /\ pc' = [pc EXCEPT !["sched"] =
              IF ~needs_refresh_loop(config, state) THEN "park" ELSE "interval"]
  /\ lock' = LockWhileSleeping
  /\ UNCHANGED <<config, disk, state, tokenFile, authDoc, ocfg, xdgData, op, run, hist>>

\* the interval sleep ends: lock again, re-check, and only then refresh_tick
SchedRecheck ==
  /\ pc["sched"] = "interval"
  /\ LockFree
  /\ IF ~TickGuard(config, state)
     THEN /\ pc' = [pc EXCEPT !["sched"] = "loop"]
          /\ UNCHANGED <<lock, op, run, hist, state>>
     ELSE /\ op' = [op EXCEPT !["sched"] = "tick"]
          /\ lock' = "sched"
          /\ RunBegin("sched", "tick")
  /\ UNCHANGED <<config, disk, tokenFile, authDoc, ocfg, xdgData>>

Next ==
  \/ \E p \in Procs : Invoke(p)
  \/ \E p \in Procs : GetState(p)
  \/ \E p \in Procs : LogOut(p)
  \/ \E p \in Procs : SaveOAuthSetup(p)
  \/ \E p \in Procs : SaveStaticKeySetup(p)
  \/ \E p \in Procs : ManualRefresh(p)
  \/ \E p \in Procs : RefreshGrant(p)
  \/ \E p \in Procs : PasswordGrant(p)
  \/ \E p \in Procs : WriteToken(p)
  \/ \E p \in Procs : Sync(p)
  \/ \E p \in Procs : Verify(p)
  \/ \E p \in Procs : Release(p)
  \/ BootSync
  \/ SchedLoopCheck
  \/ SchedRecheck

Spec == Init /\ [][Next]_vars

(***************************************************************************)
(* The scheduler and manual refreshes, with fairness                       *)
(***************************************************************************)
\* an OAuth configuration with its secrets and a refresh token
FairConfig ==
  [DefaultConfig EXCEPT !.client_secret = Some(<<"s">>), !.password = Some(<<"p">>),
                        !.refresh_token = Some(<<"r">>)]

InitFair ==
  /\ config = FairConfig
  /\ disk = OnDisk(config)
  /\ state = Idle
  /\ tokenFile = None
  /\ authDoc \in InitAuthDocs
  /\ ocfg \in {AbsentDoc, NonObj}
  /\ xdgData = FALSE
  /\ lock = NoOne
  /\ pc = [p \in Procs |-> IF p = "sched" THEN "boot" ELSE "idle"]
  /\ op = [p \in Procs |-> "none"]
  /\ run = [p \in Procs |-> NoRun]
  /\ hist = NoHist

\* manual_refresh is invoked while another task holds the Mutex
InvokeManual ==
  /\ Invoke("ui")
  /\ op'["ui"] = "manual"

\* the steps of the background task and of manual refreshes
NextFair ==
  \/ InvokeManual
  \/ ManualRefresh("ui")
  \/ \E p \in Procs : RefreshGrant(p)
  \/ \E p \in Procs : PasswordGrant(p)
  \/ \E p \in Procs : WriteToken(p)
  \/ \E p \in Procs : Sync(p)
  \/ \E p \in Procs : Verify(p)
  \/ \E p \in Procs : Release(p)
  \/ BootSync
  \/ SchedLoopCheck
  \/ SchedRecheck

\* Every request (grant, verification) and every file operation of a call
\* completes: weak fairness of the steps of a call. The tokio Mutex hands the lock
\* to its waiters in FIFO order: a waiting manual_refresh gets it (strong fairness).
\* The scheduler's sleeps end: weak fairness of its loop.
Fairness ==
  /\ \A p \in Procs :
       /\ WF_vars(RefreshGrant(p))
       /\ WF_vars(PasswordGrant(p))
       /\ WF_vars(WriteToken(p))
       /\ WF_vars(Sync(p))
       /\ WF_vars(Verify(p))
       /\ WF_vars(Release(p))
  /\ SF_vars(ManualRefresh("ui"))
  /\ WF_vars(BootSync)
  /\ SF_vars(SchedLoopCheck)
  /\ SF_vars(SchedRecheck)

SpecFair == InitFair /\ [][NextFair]_vars /\ Fairness

(***************************************************************************)
(* Runs that start from an OAuth configuration with an app name            *)
(***************************************************************************)
\* endpoint and app name: /v1 present and a plain name; no /v1 and a padded name
RunConfigs ==
  { [DefaultConfig EXCEPT !.llm_endpoint = ea[1], !.ghostllm_app = Some(ea[2]),
                          !.client_secret = Some(<<"s">>), !.password = Some(<<"p">>),
                          !.refresh_token = Some(<<"r">>)] :
      ea \in { << <<"h", "/", "v", "1">>, <<"f">> >>, << <<"h">>, <<" ", "f">> >> } }

InitRun ==
  /\ config \in RunConfigs
  /\ disk = OnDisk(config)
  /\ state = Idle
  /\ tokenFile = None
  /\ authDoc \in InitAuthDocs
  /\ ocfg \in {AbsentDoc,
               ConfigObj(ProviderObj(UserEntry, {"openai"}), PluginArr(<<"legacy", "other">>), "user")}
  /\ xdgData = FALSE
  /\ lock = NoOne
  /\ pc = [p \in Procs |-> IF p = "sched" THEN "boot" ELSE "idle"]
  /\ op = [p \in Procs |-> "none"]
  /\ run = [p \in Procs |-> NoRun]
  /\ hist = NoHist

SpecRun == InitRun /\ [][Next]_vars

(***************************************************************************)
(* The synchronizer called repeatedly with AppConfig and the token file    *)
(* unchanged, on the documents it can find (SpecSync)                      *)
(***************************************************************************)
\* number of consecutive calls followed
MaxCalls == 2

\* endpoints as the user can enter them: with /v1, with a trailing slash, without
\* /v1, with /v1 twice
SyncEndpoints ==
  { <<"h", "/", "v", "1">>, <<"h", "/", "v", "1", "/">>, <<"h">>, <<"h", "/", "/">>,
    <<"/", "v", "1", "/", "v", "1">> }

\* app names: none, blank, a name, a name with a blank before it
SyncApps == { None, Some(<<" ">>), Some(<<"f">>), Some(<<" ", "f">>) }

SyncConfigs ==
  { [DefaultConfig EXCEPT !.llm_endpoint = e, !.ghostllm_app = a] :
      e \in SyncEndpoints, a \in SyncApps }
  \cup
  { [DefaultConfig EXCEPT !.auth_mode = "StaticKey", !.llm_endpoint = e,
                          !.ghostllm_app = a, !.static_api_key = Some(k)] :
      e \in SyncEndpoints, a \in SyncApps, k \in {<<>>, <<"k">>} }

SyncTokenFiles == { None, Some(<<"a">>), Some(<<"a", " ">>) }

\* dymium provider entries opencode.json can hold
SyncEntries ==
  { AbsentDoc, NonObj, UserEntry,
    EntryObj(None, AbsentDoc, "user"),
    EntryObj(Some(<<"h", "/", "v", "1">>), NonObj, "user"),
    EntryObj(Some(<<"h", "/", "v", "1">>),
             OptionsObj(Some(<<"h", "/", "v", "1">>), Some(<<"a">>), "headers"), "user") }

\* plugin values opencode.json can hold
SyncPlugins ==
  { AbsentDoc, NonObj, PluginArr(<<>>), PluginArr(<<"legacy", "other">>),
    PluginArr(<<"pinned">>), PluginArr(<<"npm", "legacy", "nonstr">>) }

SyncOcfgs ==
  { AbsentDoc, GarbageDoc, NonObj,
    ConfigObj(AbsentDoc, AbsentDoc, "user"), ConfigObj(NonObj, AbsentDoc, "user") }
  \cup
  { ConfigObj(ProviderObj(d, {"openai"}), pl, "user") : d \in SyncEntries, pl \in SyncPlugins }

\* a dymium record left in auth.json by an earlier run
OldAuth == [type |-> "oauth", key |-> <<"b">>, endpoint |-> <<"h">>, app |-> None]

SyncAuthDocs ==
  { AbsentDoc, GarbageDoc, NonObj, AuthObj(None, {"openai"}), AuthObj(Some(OldAuth), {"openai"}) }

\* observations of the calls: how many, the result of the last call and of the one
\* before it, the documents as the last call found them, the files it wrote
NoCalls == [calls |-> 0, res |-> "none", prevRes |-> "none",
            before |-> [ocfg |-> AbsentDoc, adoc |-> AbsentDoc], writes |-> {}]

InitSync ==
  /\ config \in SyncConfigs
  /\ disk = OnDisk(config)
  /\ state = Idle
  /\ tokenFile \in SyncTokenFiles
  /\ authDoc \in SyncAuthDocs
  /\ ocfg \in SyncOcfgs
  /\ xdgData = TRUE
  /\ lock = NoOne
  /\ pc = [p \in Procs |-> "idle"]
  /\ op = [p \in Procs |-> "none"]
  /\ run = [p \in Procs |-> NoRun]
  /\ hist = NoCalls

\* one call of ensure_dymium_provider(&config)
SyncCall ==
  /\ hist.calls < MaxCalls
  /\ \E io \in IoOutcomes :
       LET r == ensure_dymium_provider(config, tokenFile, ocfg, authDoc, io)
       IN /\ ocfg' = r.ocfg
          /\ authDoc' = r.adoc
          /\ hist' = [calls |-> hist.calls + 1, res |-> r.res, prevRes |-> hist.res,
                      before |-> [ocfg |-> ocfg, adoc |-> authDoc], writes |-> r.writes]
  /\ UNCHANGED <<config, disk, state, tokenFile, xdgData, lock, pc, op, run>>

SpecSync == InitSync /\ [][SyncCall]_vars

(***************************************************************************)
(* One call of the synchronizer on what a user can have entered or left in *)
(* opencode.json (SpecDocs)                                                *)
(***************************************************************************)
\* endpoints of the setup form, which takes any text: with /v1, a lone slash
DocEndpoints == { <<"h", "/", "v", "1">>, <<"/">> }

DocConfigs ==
  { [DefaultConfig EXCEPT !.llm_endpoint = e, !.ghostllm_app = a] :
      e \in DocEndpoints, a \in {None, Some(<<"f">>)} }
  \cup
  { [DefaultConfig EXCEPT !.auth_mode = "StaticKey", !.llm_endpoint = e,
                          !.static_api_key = k] :
      e \in DocEndpoints, k \in {None, Some(<<>>), Some(<<"k">>)} }

\* the token file: absent, blank, holding a token
DocTokenFiles == { None, Some(<<" ">>), Some(<<"a">>) }

\* plugin values: those of SyncPlugins, a list of unrelated plugins only, and lists
\* that name the auth plugin twice
DocPlugins ==
  SyncPlugins \cup { PluginArr(<<"other">>), PluginArr(<<"npm", "pinned">>),
                     PluginArr(<<"npm", "other", "npm">>) }

DocOcfgs ==
  { AbsentDoc, RelaxedDoc }
  \cup
  { ConfigObj(ProviderObj(d, {"openai"}), pl, "user") : d \in SyncEntries, pl \in DocPlugins }

InitDocs ==
  /\ config \in DocConfigs
  /\ disk = OnDisk(config)
  /\ state = Idle
  /\ tokenFile \in DocTokenFiles
  /\ authDoc \in {AbsentDoc, AuthObj(Some(OldAuth), {"openai"})}
  /\ ocfg \in DocOcfgs
  /\ xdgData = TRUE
  /\ lock = NoOne
  /\ pc = [p \in Procs |-> "idle"]
  /\ op = [p \in Procs |-> "none"]
  /\ run = [p \in Procs |-> NoRun]
  /\ hist = NoCalls

SpecDocs == InitDocs /\ [][SyncCall]_vars

(***************************************************************************)
(* update_tray_status (lib.rs)                                             *)
(***************************************************************************)
MaxMsgLen == 2

\* the substrings update_tray_status looks for, in lower case
Markers ==
  { "401", "unauthorized", "invalid api key", "invalid oidc token", "timed out",
    "cannot reach llm endpoint", "failed to update opencode config" }

\* An error text is a sequence of pieces: a piece is the text of a marker or some
\* other text ("x"), written in lower case or with letters in upper case.
Pieces == [w : Markers \cup {"x"}, upper : BOOL]

Messages == UNION { [1..n -> Pieces] : n \in 0..MaxMsgLen }

\* str::to_lowercase leaving the text as it is
to_lowercase_keep(text) == text

\* str::to_lowercase
to_lowercase(text) == [i \in DOMAIN text |-> [text[i] EXCEPT !.upper = FALSE]]

\* str::contains, for a marker in lower case
contains(text, marker) == \E i \in DOMAIN text : text[i] = [w |-> marker, upper |-> FALSE]

\* status_text of update_tray_status
update_tray_status(s) ==
  IF s.tag = "Idle" THEN "Status: Not configured"
  ELSE IF s.tag = "Authenticating" THEN "Status: Connecting..."
  ELSE IF s.tag = "Verifying" THEN "Status: Verifying endpoint..."
  ELSE IF s.tag = "Authenticated" THEN "Status: Connected"
  ELSE LET normalized == to_lowercase(s.error)
       IN IF \/ contains(normalized, "401")
             \/ contains(normalized, "unauthorized")
             \/ contains(normalized, "invalid api key")
             \/ contains(normalized, "invalid oidc token")
          THEN "Status: Unauthorized"
          ELSE IF contains(normalized, "timed out") THEN "Status: Endpoint timeout"
          ELSE IF contains(normalized, "cannot reach llm endpoint")
               THEN "Status: Endpoint unreachable"
          ELSE IF contains(normalized, "failed to update opencode config")
               THEN "Status: OpenCode config error"
          ELSE "Status: Error"

\* the states the tray can be asked to show
TrayStates ==
  {Idle, Authenticating, Verifying, Authenticated(<<"a">>, 1)}
    \cup {Failed(m) : m \in Messages}

NoStatus == [shown |-> FALSE, text |-> ""]

InitTray ==
  /\ config = DefaultConfig
  /\ disk = OnDisk(config)
  /\ state \in TrayStates
  /\ tokenFile = None
  /\ authDoc = AbsentDoc
  /\ ocfg = AbsentDoc
  /\ xdgData = TRUE
  /\ lock = NoOne
  /\ pc = [p \in Procs |-> "idle"]
  /\ op = [p \in Procs |-> "none"]
  /\ run = [p \in Procs |-> NoRun]
  /\ hist = NoStatus

\* update_tray_status(&app, &state): the text of the status item is set
UpdateTrayStatus ==
  /\ ~hist.shown
  /\ hist' = [shown |-> TRUE, text |-> update_tray_status(state)]
  /\ UNCHANGED <<config, disk, state, tokenFile, authDoc, ocfg, xdgData, lock, pc, op, run>>

SpecTray == InitTray /\ [][UpdateTrayStatus]_vars

(***************************************************************************)
(* verify_endpoint's error, as Failed and as the tray shows it             *)
(***************************************************************************)
\* Pieces an endpoint URL can hold: "401" (as in the port 4010), "unauthorized"
\* (as in a host name) or other text
UrlPieces == [w : {"401", "unauthorized", "x"}, upper : BOOL]

\* effective_trimmed, as text
EndpointTexts == UNION { [1..n -> UrlPieces] : n \in 0..MaxMsgLen }

\* the failures of verify_endpoint the tray has a text for
VerifyFailures == VerifyOutcomes \ {"ok"}

Other == [w |-> "x", upper |-> FALSE]

\* the message of verify_endpoint's ConfigError: "LLM endpoint rejected the API key
\* (401 Unauthorized)", "Cannot reach LLM endpoint ({url})", "LLM endpoint timed out
\* ({url})", "LLM endpoint returned {status} ..."
verify_error_text(outcome, url) ==
  IF outcome = "401"
  THEN << Other, [w |-> "401", upper |-> FALSE], [w |-> "unauthorized", upper |-> TRUE] >>
  ELSE IF outcome = "connect"
  THEN << [w |-> "cannot reach llm endpoint", upper |-> TRUE] >> \o url
  ELSE IF outcome = "timeout"
  THEN << Other, [w |-> "timed out", upper |-> FALSE] >> \o url
  ELSE << Other >>

\* Display of TokenError::ConfigError: "Config error: {0}"
to_string(msg) == << Other >> \o msg

NoShow == [url |-> <<>>, outcome |-> "none", shown |-> FALSE, text |-> ""]

InitShow ==
  /\ config = DefaultConfig
  /\ disk = OnDisk(config)
  /\ state = Verifying
  /\ tokenFile = None
  /\ authDoc = AbsentDoc
  /\ ocfg = AbsentDoc
  /\ xdgData = TRUE
  /\ lock = "ui"
  /\ pc = [p \in Procs |-> IF p = "ui" THEN "verify" ELSE "park"]
  /\ op = [p \in Procs |-> IF p = "ui" THEN "manual" ELSE "none"]
  /\ run = [p \in Procs |-> NoRun]
  /\ \E url \in EndpointTexts : hist = [NoShow EXCEPT !.url = url]

\* verify_endpoint fails inside manual_refresh, which sets Failed{e.to_string()}
VerifyFails ==
  /\ pc["ui"] = "verify"
  /\ \E outcome \in VerifyFailures :
       /\ state' = Failed(to_string(verify_error_text(outcome, hist.url)))
       /\ hist' = [hist EXCEPT !.outcome = outcome]
  /\ pc' = [pc EXCEPT !["ui"] = "returned"]
  /\ UNCHANGED <<config, disk, tokenFile, authDoc, ocfg, xdgData, lock, op, run>>

\* update_tray_status(&app, service.state()) of the command manual_refresh
ShowStatus ==
  /\ pc["ui"] = "returned"
  /\ ~hist.shown
  /\ hist' = [hist EXCEPT !.shown = TRUE, !.text = update_tray_status(state)]
  /\ UNCHANGED <<config, disk, state, tokenFile, authDoc, ocfg, xdgData, lock, pc, op, run>>

SpecShow == InitShow /\ [][VerifyFails \/ ShowStatus]_vars

(***************************************************************************)
(* The command has_credentials (lib.rs)                                    *)
(***************************************************************************)
\* values of an optional secret: absent, empty, set
SecretValues == {None, Some(<<>>), Some(<<"s">>)}

\* configurations of either mode with any fields set, as config.json can hold them
CredConfigs ==
  { [DefaultConfig EXCEPT !.auth_mode = m, !.static_api_key = k,
                          !.client_secret = cs, !.password = pw] :
      m \in AuthMode, k \in SecretValues, cs \in SecretValues, pw \in SecretValues }

NotAsked == [asked |-> FALSE, has |-> FALSE]

InitCreds ==
  /\ config \in CredConfigs
  /\ disk = OnDisk(config)
  /\ state = Idle
  /\ tokenFile = None
  /\ authDoc = AbsentDoc
  /\ ocfg = AbsentDoc
  /\ xdgData = TRUE
  /\ lock = NoOne
  /\ pc = [p \in Procs |-> "idle"]
  /\ op = [p \in Procs |-> "none"]
  /\ run = [p \in Procs |-> NoRun]
  /\ hist = NotAsked

\* the command has_credentials: Ok(service.has_credentials())
HasCredentials ==
  /\ ~hist.asked
  /\ hist' = [asked |-> TRUE, has |-> has_credentials(config)]
  /\ UNCHANGED <<config, disk, state, tokenFile, authDoc, ocfg, xdgData, lock, pc, op, run>>

SpecCreds == InitCreds /\ [][HasCredentials]_vars

(***************************************************************************)
(* Properties                                                              *)
(***************************************************************************)
\* task p is inside a handler's critical section, holding the guard
InCS(p) == pc[p] \in {"rt_grant", "pw_grant", "write", "sync", "verify", "returned"}

\* start_refresh_loop or manual_refresh of task p has returned
RefreshReturned(p) == pc[p] = "returned" /\ op[p] \in {"start", "manual"}

\* opencode.json holds a dymium provider entry with options
HasDymiumOptions ==
  /\ ocfg.kind = "obj"
  /\ ocfg.provider.kind = "obj"
  /\ ocfg.provider.dymium.kind = "obj"
  /\ ocfg.provider.dymium.options.kind = "obj"

\* C1: whenever start_refresh_loop or manual_refresh returns, in either mode and
\* whatever the grants, saves, synchronization and verification did, TokenState is
\* Authenticated or Failed, never Authenticating or Verifying.
C1_SettledOnReturn ==
  \A p \in Procs : RefreshReturned(p) => state.tag \in {"Authenticated", "Failed"}

\* a manual refresh has returned an error from a failed synchronization
C1_Witness ==
  /\ RefreshReturned("ui")
  /\ run["ui"].res = ConfigError("sync")
  /\ state.tag = "Failed"

\* C2 as stated: a successful run is observed as (Idle or Failed) -> Authenticating
\* -> Verifying -> Authenticated; a failing run ends at Failed and never assigns
\* Authenticated.
C2_Original ==
  \A p \in Procs : RefreshReturned(p) =>
    IF run[p].res = Ok
    THEN /\ hist.pre.tag \in {"Idle", "Failed"}
         /\ hist.trace = <<"Authenticating", "Verifying", "Authenticated">>
    ELSE /\ state.tag = "Failed"
         /\ \A i \in 1..Len(hist.trace) : hist.trace[i] # "Authenticated"

\* C2, amended: a successful run assigns exactly Authenticating, Verifying,
\* Authenticated, in this order, to whatever state it found (which may be
\* Authenticated, on a refresh); a failing run ends at Failed and never assigns
\* Authenticated.
C2_Sequence ==
  \A p \in Procs : RefreshReturned(p) =>
    IF run[p].res = Ok
    THEN /\ hist.trace = <<"Authenticating", "Verifying", "Authenticated">>
         /\ state.tag = "Authenticated"
    ELSE /\ state.tag = "Failed"
         /\ \A i \in 1..Len(hist.trace) : hist.trace[i] # "Authenticated"

\* a manual refresh has succeeded from the state Authenticated
C2_Witness ==
  /\ RefreshReturned("ui")
  /\ run["ui"].res = Ok
  /\ hist.pre.tag = "Authenticated"

\* C3: the operations on the shared TokenService exclude each other: never are two
\* tasks inside a handler at once, and the task inside holds the lock.
C3_MutualExclusion ==
  \A p, q \in Procs : InCS(p) => lock = p /\ (InCS(q) => p = q)

\* a manual refresh waits for the lock while a scheduled refresh verifies
C3_Witness ==
  /\ op["sched"] = "tick"
  /\ pc["sched"] = "verify"
  /\ pc["ui"] = "wait"
  /\ op["ui"] = "manual"

\* C4: the scheduler runs refresh_tick only from a state where the mode is OAuth and
\* TokenState is Authenticated, checked under the lock it runs the tick with.
C4_TickOnlyWhenNeeded ==
  op["sched"] = "tick" =>
    /\ hist.pre.tag = "Authenticated"
    /\ is_oauth_mode(config)
    /\ lock = "sched"

\* a scheduled refresh is under way
C4_Witness ==
  /\ op["sched"] = "tick"
  /\ pc["sched"] = "rt_grant"
  /\ hist.pre.tag = "Authenticated"

\* C5 as stated: after a failed scheduled refresh TokenState is still the
\* Authenticated{token, expires_at} it was before the tick.
C5_Original ==
  (pc["sched"] = "returned" /\ op["sched"] = "tick" /\ run["sched"].res # Ok)
    => state = hist.pre

\* C6: while the scheduler sleeps (the 5 s park or the refresh interval) it does not
\* hold the lock.
C6_NoLockWhileSleeping ==
  pc["sched"] \in {"park", "interval"} => lock # "sched"

\* a manual refresh runs while the scheduler sleeps through its interval
C6_Witness ==
  /\ pc["sched"] = "interval"
  /\ lock = "ui"
  /\ op["ui"] = "manual"
  /\ pc["ui"] = "verify"

\* C7 as stated: after a refresh-token grant answered 400 or 401, when the password
\* grant is about to be attempted, the refresh token is gone from AppConfig and from
\* the persisted config.
C7_Original ==
  \A p \in Procs : (pc[p] = "pw_grant" /\ hist.rt = "rejected") =>
    /\ config.refresh_token = None
    /\ disk.refresh_token = None

\* the state part of C7, amended: the refresh token is gone from AppConfig, and from
\* the persisted config when the save succeeded; a refresh-token grant is only
\* issued with a refresh token stored
C7_Cleared ==
  \A p \in Procs :
    /\ (pc[p] = "pw_grant" /\ hist.rt = "rejected") =>
         /\ config.refresh_token = None
         /\ hist.rtSaved => disk.refresh_token = None
    /\ pc[p] = "rt_grant" => IsSome(config.refresh_token)

\* the step part of C7: a refresh token comes to be stored only by a grant that
\* succeeded
C7_OnlyGrantsStore ==
  (~IsSome(config.refresh_token) /\ IsSome(config'.refresh_token)) =>
     \E p \in Procs : pc[p] \in {"rt_grant", "pw_grant"} /\ pc'[p] = "write"

\* C7, amended: on 400/401 the refresh token is cleared from AppConfig and a save is
\* attempted before the password grant (the persisted config holds no refresh token
\* when that save succeeded); until a grant succeeds with a new refresh token, no
\* refresh-token grant is issued.
C7_Invalidation == []C7_Cleared /\ [][C7_OnlyGrantsStore]_vars

\* the password grant is about to be attempted after a 401, the cleared config saved
C7_Witness ==
  /\ pc["ui"] = "pw_grant"
  /\ hist.rt = "rejected"
  /\ hist.rtSaved
  /\ hist.rtBefore = Some(<<"r">>)
  /\ disk.refresh_token = None

\* C8: when the refresh-token grant fails otherwise than by 400/401, the password
\* grant is attempted with the refresh token of AppConfig as it was.
C8_RefreshTokenKept ==
  \A p \in Procs : (pc[p] = "pw_grant" /\ hist.rt = "failed") =>
    /\ IsSome(hist.rtBefore)
    /\ config.refresh_token = hist.rtBefore

\* the password grant is about to be attempted after such a failure
C8_Witness ==
  /\ pc["ui"] = "pw_grant"
  /\ hist.rt = "failed"
  /\ config.refresh_token = Some(<<"r">>)

\* C9 as stated: when start_refresh_loop or manual_refresh returns Ok with
\* Authenticated{token}, the token file, the key of the dymium auth record and
\* options.apiKey of the dymium provider entry all are token.
C9_Original ==
  \A p \in Procs :
    (RefreshReturned(p) /\ run[p].res = Ok /\ state.tag = "Authenticated") =>
      /\ tokenFile = Some(state.token)
      /\ HasDymiumAuth
      /\ authDoc.dymium.v.key = state.token
      /\ HasDymiumOptions
      /\ ocfg.provider.dymium.options.apiKey = Some(state.token)

\* C10 as stated: after log_out returns Ok the secrets are gone from AppConfig and
\* from the persisted config, the token file is gone, auth.json holds no dymium
\* record and TokenState is Idle.
C10_Original ==
  \A p \in Procs : (pc[p] = "returned" /\ op[p] = "log_out" /\ run[p].res = Ok) =>
    /\ \A f \in SecretFields : config[f] = None /\ disk[f] = None
    /\ tokenFile = None
    /\ ~HasDymiumAuth
    /\ state = Idle

\* a log_out call returns in this step
LogOutStep == \E p \in Procs : op'[p] = "log_out" /\ pc[p] # "returned" /\ pc'[p] = "returned"

\* C11 as stated: a log_out called right after a log_out returns success and leaves
\* AppConfig, TokenState and the files exactly as the first call left them.
C11_OriginalStep ==
  (LogOutStep /\ AsLoggedOut) =>
    /\ \E p \in Procs : run'[p].res = Ok
    /\ UNCHANGED <<config, disk, state, tokenFile, authDoc, ocfg>>

C11_Original == [][C11_OriginalStep]_vars

\* what a repeated log_out does
C11_RepeatStep ==
  (LogOutStep /\ AsLoggedOut) =>
    /\ \E p \in Procs : run'[p].res \in {Ok, ConfigError("save")}
    /\ UNCHANGED <<config, disk, state, tokenFile, authDoc, ocfg>>

\* C11, amended: a log_out called right after a log_out, with the token file and the
\* secrets already absent, returns no error on account of anything being absent (its
\* only error is a failed save of the config) and leaves AppConfig, the persisted
\* config, TokenState, the token file and the consumer documents exactly as the
\* first call left them.
C11_Idempotent == [][C11_RepeatStep]_vars

\* a repeated log_out has returned success
C11_Witness ==
  /\ pc["ui"] = "returned"
  /\ op["ui"] = "log_out"
  /\ hist.repeat
  /\ run["ui"].res = Ok

\* a save-setup call of task p has returned
SetupReturned(p) == pc[p] = "returned" /\ op[p] \in {"save_oauth", "save_static"}

ModeInvariant(c) ==
  /\ is_static_key_mode(c) =>
       c.client_secret = None /\ c.password = None /\ c.refresh_token = None
  /\ is_oauth_mode(c) => c.static_api_key = None

\* C13: in every reachable state, in StaticKey mode the client secret, the password
\* and the refresh token of AppConfig are absent, and in OAuth mode the static key is
\* absent.
C13_ModeInvariant == ModeInvariant(config)

\* the mode was switched to StaticKey while a refresh token was stored
C13_Witness ==
  /\ SetupReturned("ui")
  /\ hist.stale
  /\ is_static_key_mode(config)
  /\ config.static_api_key = Some(<<"k">>)

\* C17 as stated: whatever synchronizations, save-setup calls and log_out calls have
\* happened, every entry of auth.json that belongs to another provider is still there
\* with its value.
C17_Original ==
  \A a \in InitAuthDocs : authDoc.kind = "obj" /\ a.siblings \subseteq authDoc.siblings

\* the last call was made on what a successful call had just left
RepeatedCall == hist.calls >= 2 /\ hist.prevRes = "ok"

\* C14: a call of ensure_dymium_provider that follows a successful call, with
\* AppConfig and the token file unchanged, leaves opencode.json and auth.json
\* as the first call left them.
C14_SameDocuments ==
  RepeatedCall => (ocfg = hist.before.ocfg /\ authDoc = hist.before.adoc)

\* two successful calls in a row, the first of which had to write opencode.json
C14_Witness ==
  /\ RepeatedCall
  /\ hist.res = "ok"
  /\ ocfg.kind = "obj"
  /\ ocfg.plugin = PluginArr(<<"other", "npm">>)
  /\ ocfg.provider.dymium.rest = "user"

\* C15 as stated: a call of ensure_dymium_provider that follows a successful call,
\* with AppConfig and the token file unchanged, writes no file.
C15_Original == RepeatedCall => hist.writes = {}

\* the last call found a dymium provider entry in opencode.json
MergeCase ==
  /\ hist.calls >= 1
  /\ hist.before.ocfg.kind = "obj"
  /\ hist.before.ocfg.provider.kind = "obj"
  /\ hist.before.ocfg.provider.dymium.kind = "obj"

\* the user's fields of an options value
ExtraOf(options) == IF options.kind = "obj" THEN options.extra ELSE "none"

\* apart from api, options.baseURL and options.apiKey, the dymium entry, the other
\* providers and the other top-level keys (plugin aside) are as the call found them
EntryPreserved ==
  /\ ocfg.kind = "obj" /\ ocfg.provider.kind = "obj" /\ ocfg.provider.dymium.kind = "obj"
  /\ ocfg.provider.dymium.rest = hist.before.ocfg.provider.dymium.rest
  /\ ExtraOf(ocfg.provider.dymium.options) = ExtraOf(hist.before.ocfg.provider.dymium.options)
  /\ ocfg.provider.others = hist.before.ocfg.provider.others
  /\ ocfg.other = hist.before.ocfg.other

\* C16 as stated: a synchronization that finds a dymium provider entry changes at
\* most api, options.baseURL and options.apiKey of it; every other field of the
\* entry, every other provider and every top-level key is as before.
C16_Original == MergeCase => (EntryPreserved /\ ocfg.plugin = hist.before.ocfg.plugin)

\* the plugin list after a call: the entries found, without the legacy ones, in their
\* order, and the npm plugin after them if no entry named the auth plugin
PluginListMaintained ==
  \/ ocfg.plugin = hist.before.ocfg.plugin
  \/ /\ ocfg.plugin.kind = "arr"
     /\ LET found == IF hist.before.ocfg.plugin.kind = "arr"
                     THEN hist.before.ocfg.plugin.items ELSE <<>>
            kept == SelectSeq(found, LAMBDA q : q # "legacy")
        IN ocfg.plugin.items \in {kept, Append(kept, "npm")}

\* C16, amended: a synchronization that finds a dymium provider entry changes at most
\* api, options.baseURL and options.apiKey of it; every other field of the entry,
\* every other provider and every top-level key other than plugin is as before; in
\* the plugin list only legacy entries are removed and the npm plugin is added.
C16_MergePreserves == MergeCase => (EntryPreserved /\ PluginListMaintained)

\* a successful call has updated api of an entry the user wrote, keeping its fields
C16_Witness ==
  /\ MergeCase
  /\ hist.res = "ok"
  /\ hist.before.ocfg.provider.dymium = UserEntry
  /\ ocfg.provider.dymium.api # UserEntry.api
  /\ ocfg.provider.dymium.options.extra = "headers"

\* s ends with one or more '/'
EndsWithSlash(s) == s # <<>> /\ s[Len(s)] = "/"

\* e is endpoint without its trailing slashes
IsTrimmedOf(e, endpoint) ==
  /\ ~EndsWithSlash(e)
  /\ \E n \in 0..Len(endpoint) :
       /\ e = SubSeq(endpoint, 1, Len(endpoint) - n)
       /\ \A i \in (Len(endpoint) - n + 1)..Len(endpoint) : endpoint[i] = "/"

\* the version segment /v1 occurs in e at position i
OccursAt(e, i) == i >= 1 /\ i + 2 <= Len(e) /\ SubSeq(e, i, i + 2) = V1

\* url is the effective endpoint the derivation rule gives for an endpoint without
\* trailing slashes e and the app name A
Derived(url, e, A) ==
  IF \E i \in 1..Len(e) : OccursAt(e, i)
  THEN \E i \in 1..Len(e) :
         /\ OccursAt(e, i)
         /\ \A j \in (i + 1)..Len(e) : ~OccursAt(e, j)
         /\ url = SubSeq(e, 1, i - 1) \o <<"/">> \o A \o SubSeq(e, i, Len(e))
  ELSE url = e \o <<"/">> \o A \o V1

\* an app name is set and is not blank
AppSet(c) == IsSome(c.ghostllm_app) /\ \E i \in 1..Len(c.ghostllm_app.v) : ~IsWs(c.ghostllm_app.v[i])

\* C18 as stated: compute_base_url gives the endpoint without trailing slash in
\* StaticKey mode or with no non-blank app name; in OAuth mode with the app name A
\* it gives the endpoint with /A before the last /v1, or endpoint + /A/v1 when the
\* endpoint has no /v1; A being the app name as configured.
C18_Original ==
  \E e \in {SubSeq(config.llm_endpoint, 1, n) : n \in 0..Len(config.llm_endpoint)} :
    /\ IsTrimmedOf(e, config.llm_endpoint)
    /\ IF is_oauth_mode(config) /\ AppSet(config)
       THEN Derived(compute_base_url(config), e, config.ghostllm_app.v)
       ELSE compute_base_url(config) = e

\* A is name without the white space around it
IsTrimOf(A, name) ==
  /\ A # <<>> => ~IsWs(A[1]) /\ ~IsWs(A[Len(A)])
  /\ \E i \in 1..(Len(name) + 1), j \in 0..Len(name) :
       /\ A = SubSeq(name, i, j)
       /\ \A k \in (1..(i - 1)) \cup ((j + 1)..Len(name)) : IsWs(name[k])

\* C18, amended: compute_base_url gives the endpoint without trailing slashes in
\* StaticKey mode or with no non-blank app name; in OAuth mode with a non-blank app
\* name, A being that name without the white space around it, it gives the endpoint
\* with /A before the last /v1, or endpoint + /A/v1 when the endpoint has no /v1;
\* h/v1 with app f in OAuth mode gives h/f/v1.
C18_Derivation ==
  /\ \E e \in {SubSeq(config.llm_endpoint, 1, n) : n \in 0..Len(config.llm_endpoint)} :
       /\ IsTrimmedOf(e, config.llm_endpoint)
       /\ IF is_oauth_mode(config) /\ AppSet(config)
          THEN \E A \in {SubSeq(config.ghostllm_app.v, i, j) :
                           i \in 1..(Len(config.ghostllm_app.v) + 1),
                           j \in 0..Len(config.ghostllm_app.v)} :
                 /\ IsTrimOf(A, config.ghostllm_app.v)
                 /\ Derived(compute_base_url(config), e, A)
          ELSE compute_base_url(config) = e
  /\ (/\ is_oauth_mode(config)
      /\ config.llm_endpoint = <<"h", "/", "v", "1">>
      /\ config.ghostllm_app = Some(<<"f">>))
     => compute_base_url(config) = <<"h", "/", "f", "/", "v", "1">>
  /\ (hist.calls >= 1 /\ hist.res = "ok")
     => ocfg.provider.dymium.api = Some(compute_base_url(config))

\* a call has written the endpoint derived from an endpoint with two /v1 and a
\* padded app name: the name is spliced before the last /v1, without the padding
C18_Witness ==
  /\ hist.calls >= 1 /\ hist.res = "ok"
  /\ is_oauth_mode(config)
  /\ config.llm_endpoint = <<"/", "v", "1", "/", "v", "1">>
  /\ config.ghostllm_app = Some(<<" ", "f">>)
  /\ ocfg.provider.dymium.api = Some(<<"/", "v", "1", "/", "f", "/", "v", "1">>)

Mentions(text, marker) == \E i \in DOMAIN text : text[i].w = marker

\* the error text holds one of the markers of an unauthorized credential
MentionsUnauthorized(text) ==
  \E m \in {"401", "unauthorized", "invalid api key", "invalid oidc token"} : Mentions(text, m)

\* the status texts of a Failed state
FailureTexts ==
  { "Status: Unauthorized", "Status: Endpoint timeout", "Status: Endpoint unreachable",
    "Status: OpenCode config error", "Status: Error" }

\* C20: the status text shown for a Failed state is one of five texts, decided by
\* the error text alone, by substring match regardless of case, in the order:
\* unauthorized, timeout, unreachable, config error, and the generic error when no
\* marker occurs.
C20_Classification ==
  (hist.shown /\ state.tag = "Failed") =>
    LET e == state.error
        u == MentionsUnauthorized(e)
        t == Mentions(e, "timed out")
        r == Mentions(e, "cannot reach llm endpoint")
        c == Mentions(e, "failed to update opencode config")
    IN /\ hist.text \in FailureTexts
       /\ hist.text = "Status: Unauthorized" <=> u
       /\ hist.text = "Status: Endpoint timeout" <=> (~u /\ t)
       /\ hist.text = "Status: Endpoint unreachable" <=> (~u /\ ~t /\ r)
       /\ hist.text = "Status: OpenCode config error" <=> (~u /\ ~t /\ ~r /\ c)
       /\ hist.text = "Status: Error" <=> (~u /\ ~t /\ ~r /\ ~c)
       /\ hist.text = update_tray_status(Failed(e))

\* a text with the timeout marker in upper case before the unauthorized marker is
\* shown as unauthorized
C20_Witness ==
  /\ hist.shown
  /\ state = Failed(<< [w |-> "timed out", upper |-> TRUE],
                       [w |-> "unauthorized", upper |-> TRUE] >>)
  /\ hist.text = "Status: Unauthorized"

\* the status text of each kind of verification failure
TextOf(outcome) ==
  IF outcome = "401" THEN "Status: Unauthorized"
  ELSE IF outcome = "connect" THEN "Status: Endpoint unreachable"
  ELSE IF outcome = "timeout" THEN "Status: Endpoint timeout"
  ELSE "Status: Error"

\* C21 as stated: for every endpoint URL, a verification that ends with 401 is
\* shown as unauthorized, with a connect failure as endpoint unreachable, with a
\* timeout as endpoint timeout, with another status as the generic error.
C21_Original == hist.shown => hist.text = TextOf(hist.outcome)

\* C22 as stated: whatever valid JSON opencode.json and auth.json hold (a top-level
\* value, a provider value, a dymium entry or an options value that is not an
\* object, a plugin value that is not an array), a synchronization returns success
\* or an error value; none panics.
C22_Original == hist.calls >= 1 => hist.res \in {"ok", "err"}

\* a save_oauth_setup or save_static_key_setup call returns in this step
SetupStep ==
  \E p \in Procs : /\ op'[p] \in {"save_oauth", "save_static"}
                   /\ pc[p] # "returned" /\ pc'[p] = "returned"

\* C23: save_oauth_setup and save_static_key_setup leave TokenState as it was before
\* the call, whatever its value, and the call makes no grant request and no endpoint
\* verification and assigns no state.
C23_NoReauthentication ==
  [][SetupStep => /\ state' = state
                  /\ hist'.trace = <<>>
                  /\ hist'.rt = "none"
                  /\ hist'.url = None]_vars

\* a save-setup call has returned while the state is Authenticated
C23_Witness ==
  /\ SetupReturned("ui")
  /\ run["ui"].res = Ok
  /\ state.tag = "Authenticated"

\* the call of task p has returned the error of a step that follows the grant (or,
\* in the static-key path, the key check): write_token, ensure_dymium_provider or
\* verify_endpoint
LaterStepFailed(p) ==
  /\ pc[p] = "returned"
  /\ op[p] \in {"start", "manual", "tick"}
  /\ run[p].res \in {IoError, ConfigError("sync")} \cup {ConfigError(o) : o \in VerifyFailures}

\* C24 as stated: when a step after the grant fails, the run ends in Failed.
C24_Original == \A p \in Procs : LaterStepFailed(p) => state.tag = "Failed"

\* C24, amended: once a call holds a credential to install (a grant has succeeded,
\* or the static key is set), the call goes on through write_token,
\* ensure_dymium_provider and verify_endpoint to its return and never back to a
\* grant, and verify_endpoint is attempted once; when one of these steps fails in
\* start_refresh_loop or manual_refresh, the state at the return is Failed.
C24_NoRetry ==
  [][\A p \in Procs :
       /\ (pc[p] = "write" /\ pc'[p] # pc[p]) => pc'[p] \in {"sync", "returned"}
       /\ (pc[p] = "sync" /\ pc'[p] # pc[p]) => pc'[p] \in {"verify", "returned", "idle", "dead"}
       /\ (pc[p] = "verify" /\ pc'[p] # pc[p]) => pc'[p] = "returned"
       /\ (pc[p] = "returned" /\ pc'[p] # pc[p]) => pc'[p] \in {"idle", "loop"}
       /\ (LaterStepFailed(p)' /\ op'[p] \in {"start", "manual"}) => state'.tag = "Failed"]_vars

\* a manual refresh by refresh-token grant has ended with a failed verification
C24_Witness ==
  /\ LaterStepFailed("ui")
  /\ is_oauth_mode(config)
  /\ IsSome(config.refresh_token)
  /\ hist.rt = "none"
  /\ run["ui"].res = ConfigError("timeout")
  /\ state.tag = "Failed"

\* task p makes a step of its own
Steps(p) == pc'[p] # pc[p]

\* task p begins start_refresh_loop or manual_refresh in this step
BeginsRun(p) ==
  /\ lock # p /\ lock' = p
  /\ op'[p] \in {"start", "manual"}

\* C25 as stated, for the password grant: a call that finds the client secret or
\* the password absent or empty ends in Failed with the error of the missing field.
C25_Original ==
  \A p \in Procs :
    (pc[p] = "returned" /\ run[p].res \in {MissingClientSecret, MissingPassword})
      => state = Failed(run[p].res)

\* C25, amended: perform_password_grant with an absent or empty client secret returns
\* the missing-client-secret error, with an absent or empty password the
\* missing-password error, without a request; the static-key path with an absent or
\* empty key returns a config error before anything is written; in
\* start_refresh_loop and manual_refresh the state is then Failed with that error.
C25_FailFast ==
  [][\A p \in Procs :
       /\ (pc[p] = "pw_grant" /\ Steps(p) /\ ~NonEmpty(config.client_secret)) =>
            /\ pc'[p] = "returned" /\ run'[p].res = MissingClientSecret
            /\ op[p] \in {"start", "manual"} => state' = Failed(MissingClientSecret)
            /\ UNCHANGED <<config, disk, tokenFile, authDoc, ocfg>>
       /\ (/\ pc[p] = "pw_grant" /\ Steps(p)
           /\ NonEmpty(config.client_secret) /\ ~NonEmpty(config.password)) =>
            /\ pc'[p] = "returned" /\ run'[p].res = MissingPassword
            /\ op[p] \in {"start", "manual"} => state' = Failed(MissingPassword)
            /\ UNCHANGED <<config, disk, tokenFile, authDoc, ocfg>>
       /\ (/\ BeginsRun(p) /\ p = "ui"
           /\ is_static_key_mode(config) /\ ~NonEmpty(config.static_api_key)) =>
            /\ pc'[p] = "returned"
            /\ run'[p].res = ConfigError("no static key")
            /\ state' = Failed(ConfigError("no static key"))
            /\ hist'.trace \in {<<>>, <<"Failed">>}
            /\ UNCHANGED <<config, disk, tokenFile, authDoc, ocfg>>]_vars

\* a manual refresh has failed on an empty password
C25_Witness ==
  /\ pc["ui"] = "returned" /\ op["ui"] = "manual"
  /\ run["ui"].res = MissingPassword
  /\ config.password = Some(<<>>)
  /\ state = Failed(MissingPassword)

\* the secret is present and not empty
Present(o) == o.some /\ Len(o.v) > 0

\* C26: has_credentials is true iff, in StaticKey mode, the static key is present
\* and not empty and, in OAuth mode, the client secret and the password both are;
\* the fields of the other mode do not influence the result.
C26_HasCredentials ==
  hist.asked =>
    /\ config.auth_mode = "StaticKey" => (hist.has <=> Present(config.static_api_key))
    /\ config.auth_mode = "OAuth" =>
         (hist.has <=> (Present(config.client_secret) /\ Present(config.password)))
    /\ \A c \in CredConfigs :
         (/\ c.auth_mode = config.auth_mode
          /\ config.auth_mode = "StaticKey" => c.static_api_key = config.static_api_key
          /\ config.auth_mode = "OAuth" => /\ c.client_secret = config.client_secret
                                           /\ c.password = config.password)
           => has_credentials(c) = hist.has

\* has_credentials has answered false in OAuth mode with a static key set and the
\* password empty
C26_Witness ==
  /\ hist.asked /\ ~hist.has
  /\ config.auth_mode = "OAuth"
  /\ config.static_api_key = Some(<<"s">>)
  /\ config.client_secret = Some(<<"s">>)
  /\ config.password = Some(<<>>)

\* manual_refresh of the command task waits for the lock
ManualWaits == pc["ui"] = "wait" /\ op["ui"] = "manual"

\* manual_refresh of the command task holds the lock and executes
ManualRuns == lock = "ui" /\ op["ui"] = "manual" /\ pc["ui"] \notin {"idle", "wait"}

\* C27: while the background task holds the lock, a manual refresh that was
\* requested only waits, and the background task's call is not interrupted: the lock
\* leaves it only at the end of its call (or when it panics); with every step of a
\* call completing and the lock handed to waiters fairly, a waiting manual refresh
\* eventually holds the lock and executes.
C27_NoPreemptionNoStarvation ==
  /\ [][lock = "sched" =>
          /\ pc'["ui"] \in {pc["ui"], "wait"}
          /\ lock' # "sched" => (pc["sched"] \in {"returned", "sync"} /\ lock' = NoOne)]_vars
  /\ (ManualWaits ~> ManualRuns)

\* a manual refresh waits while a scheduled refresh verifies the endpoint
C27_Witness ==
  /\ ManualWaits
  /\ lock = "sched"
  /\ op["sched"] = "tick"
  /\ pc["sched"] = "verify"

\* C28 as stated: the scheduler loop never terminates; it keeps re-checking while
\* the mode is StaticKey or the state is not Authenticated, and invokes the refresh
\* operation once the mode is OAuth and the state is Authenticated for good.
C28_Original ==
  /\ [](pc["sched"] # "dead")
  /\ (<>[](needs_refresh_loop(config, state)) => []<>(op["sched"] = "tick"))

\* the positions a task is at before a call begins
Outside == {"idle", "wait", "boot", "interval"}

\* C29: in a call of the OAuth path, the refresh-token grant is attempted first iff a
\* refresh token is stored, and then once; the password grant is attempted after
\* that grant has failed, or at once when no refresh token is stored, and once; no
\* grant follows the password grant.
C29_GrantOrdering ==
  [][\A p \in Procs :
       /\ (pc'[p] = "rt_grant" /\ Steps(p)) =>
            (pc[p] \in Outside /\ IsSome(config.refresh_token))
       /\ (pc'[p] = "pw_grant" /\ Steps(p)) =>
            \/ pc[p] = "rt_grant" /\ hist'.rt \in {"rejected", "failed"}
            \/ pc[p] \in Outside /\ ~IsSome(config.refresh_token)
       /\ (pc[p] = "rt_grant" /\ Steps(p)) => pc'[p] \in {"pw_grant", "write"}
       /\ (pc[p] = "pw_grant" /\ Steps(p)) => pc'[p] \in {"write", "returned"}]_vars

\* a manual refresh is about to attempt the password grant after its refresh-token
\* grant was rejected
C29_Witness ==
  /\ pc["ui"] = "pw_grant"
  /\ op["ui"] = "manual"
  /\ hist.rt = "rejected"
  /\ hist.rtBefore = Some(<<"r">>)

\* C30: in both paths the token file is written first, then the consumer config is
\* synchronized, and only then the state becomes Verifying and verify_endpoint runs:
\* the state becomes Verifying only in the step in which the synchronization of the
\* run succeeds, and the synchronization runs only after write_token of the run has
\* written the token.
C30_StepOrdering ==
  [][\A p \in Procs :
       /\ (pc'[p] = "sync" /\ Steps(p)) =>
            (pc[p] = "write" /\ tokenFile' = Some(run[p].tok) /\ state'.tag = "Authenticating")
       /\ (pc'[p] = "verify" /\ Steps(p)) =>
            /\ pc[p] = "sync"
            /\ tokenFile = Some(run[p].tok)
            /\ HasDymiumOptions' /\ HasDymiumAuth'
            /\ state.tag = "Authenticating" /\ state' = Verifying
       /\ (state'.tag = "Verifying" /\ state.tag # "Verifying") =>
            \E q \in Procs : pc[q] = "sync" /\ pc'[q] = "verify"
       /\ (pc[p] = "verify" /\ Steps(p)) => hist'.url # None]_vars

\* the static-key path is at verify_endpoint, the key written and synchronized
C30_Witness ==
  /\ pc["ui"] = "verify"
  /\ state = Verifying
  /\ is_static_key_mode(config)
  /\ tokenFile = config.static_api_key
  /\ HasDymiumOptions
  /\ ocfg.provider.dymium.options.apiKey = config.static_api_key

\* the refresh tokens a token response can carry, or none
ResponseRefreshTokens == {None} \cup {Some(r) : r \in RefreshTokens}

\* a grant of task p is answered in this step
GrantAnswered(p) == pc[p] \in {"rt_grant", "pw_grant"} /\ Steps(p)

\* C31: a grant that succeeds with a new refresh token sets AppConfig.refresh_token
\* to it and attempts a save, after which the persisted config holds it or is as it
\* was; whether the save succeeds or fails, the call goes on to write_token with the
\* state unchanged and the new refresh token in AppConfig, and no call returns the
\* error of that save.
C31_BestEffortPersist ==
  [][\A p \in Procs :
       /\ (GrantAnswered(p) /\ pc'[p] = "write") =>
            /\ \E rt \in ResponseRefreshTokens :
                 /\ config' = IF IsSome(rt) THEN [config EXCEPT !.refresh_token = rt]
                               ELSE config
                 /\ disk' \in IF IsSome(rt) THEN {disk, OnDisk(config')} ELSE {disk}
            /\ state' = state
            /\ run'[p].res = Pending
       /\ (GrantAnswered(p) /\ pc'[p] = "returned") =>
            /\ pc[p] = "pw_grant"
            /\ run'[p].res \in {MissingClientSecret, MissingPassword, HttpError}
                                \cup {AuthFailed(st) : st \in PasswordFailStatus}]_vars

\* a manual refresh has ended in Authenticated with a refresh token in AppConfig that
\* the persisted config does not hold: its save failed
C31_Witness ==
  /\ pc["ui"] = "returned" /\ op["ui"] = "manual"
  /\ run["ui"].res = Ok
  /\ state.tag = "Authenticated"
  /\ config.refresh_token = Some(<<"r">>)
  /\ disk.refresh_token = None

\* the last call returned success
CallSucceeded == hist.calls >= 1 /\ hist.res = "ok"

\* C32 as stated, for the calls that return success: api and options.baseURL of the
\* dymium entry both are the effective endpoint of AppConfig, whether the entry was
\* created or found, and a created entry carries the fixed catalog.
C32_Original ==
  CallSucceeded =>
    /\ HasDymiumOptions
    /\ ocfg.provider.dymium.api = Some(compute_base_url(config))
    /\ ocfg.provider.dymium.options.baseURL = Some(compute_base_url(config))
    /\ hist.before.ocfg.kind = "absent" => ocfg.provider.dymium.rest = FixedCatalog

\* the indices of the entries of a plugin list that name the auth plugin
AuthPluginEntries(items) == {i \in 1..Len(items) : ContainsAuthPlugin(items[i])}

\* the entries of the plugin list the last call found
FoundPlugins ==
  IF hist.before.ocfg.kind = "obj" /\ hist.before.ocfg.plugin.kind = "arr"
  THEN hist.before.ocfg.plugin.items ELSE <<>>

\* C33 as stated: after a successful call the plugin list exists, holds exactly one
\* entry naming the auth plugin and no legacy local-path entry, and still holds
\* every unrelated entry it held.
C33_Original ==
  CallSucceeded =>
    /\ ocfg.kind = "obj" /\ ocfg.plugin.kind = "arr"
    /\ Cardinality(AuthPluginEntries(ocfg.plugin.items)) = 1
    /\ \A i \in 1..Len(ocfg.plugin.items) : ~ContainsLegacy(ocfg.plugin.items[i])
    /\ SelectSeq(ocfg.plugin.items, LAMBDA q : q \in {"other", "nonstr"})
         = SelectSeq(FoundPlugins, LAMBDA q : q \in {"other", "nonstr"})

\* C34 as stated: a call that finds opencode.json written in the relaxed dialect,
\* and whose file operations succeed, does not fail for the dialect: it merges and
\* leaves a strict JSON document with the dymium entry.
C34_Original ==
  (hist.calls >= 1 /\ hist.before.ocfg = RelaxedDoc /\ hist.writes # {}) =>
    /\ ocfg.kind = "obj"
    /\ "config" \in hist.writes

\* neither the token file nor, in StaticKey mode, the static key holds a credential
NoCredential ==
  /\ tokenFile = None \/ \A i \in 1..Len(tokenFile.v) : tokenFile.v[i] = " "
  /\ ~(config.auth_mode = "StaticKey" /\ config.static_api_key.some
         /\ Len(config.static_api_key.v) > 0)

\* options.apiKey of the dymium entry of a document, if it has one
EntryKeyOf(doc) ==
  IF /\ doc.kind = "obj" /\ doc.provider.kind = "obj"
     /\ doc.provider.dymium.kind = "obj" /\ doc.provider.dymium.options.kind = "obj"
  THEN doc.provider.dymium.options.apiKey ELSE None

C36_Original == state.tag = "Authenticated" => tokenFile = Some(state.token)

\* start_refresh_loop or manual_refresh of task p has returned the error of
\* verify_endpoint
VerificationFailed(p) ==
  /\ RefreshReturned(p)
  /\ run[p].res \in {ConfigError(o) : o \in VerifyFailures}

\* C37 as stated, for start_refresh_loop and manual_refresh: a run that fails at
\* verify_endpoint ends in Failed with the token file, the key of the dymium auth
\* record and options.apiKey of the dymium entry all holding the credential the run
\* obtained.
C37_Original ==
  \A p \in Procs : VerificationFailed(p) =>
    /\ state.tag = "Failed"
    /\ tokenFile = Some(run[p].tok)
    /\ HasDymiumAuth
    /\ authDoc.dymium.v.key = run[p].tok
    /\ HasDymiumOptions
    /\ ocfg.provider.dymium.options.apiKey = Some(run[p].tok)

\* log_out, save_oauth_setup or save_static_key_setup returns in this step
ClearingStep ==
  \E p \in Procs : /\ op'[p] \in {"log_out", "save_oauth", "save_static"}
                   /\ pc[p] # "returned" /\ pc'[p] = "returned"

\* ensure_dymium_provider runs in this step: in a run, or at startup
SyncStep == (\E p \in Procs : pc[p] = "sync") \/ pc["sched"] = "boot"

====
